---- MODULE Spec2Model ----
(***************************************************************************)
(* Model of github.com/ardnew/relay: package srv (Make,                    *)
(* Service.ListenAndServe, Service.HandleConnection), main's argument loop *)
(* (parseServiceArg, resolveShell, port auto-increment) with the listener  *)
(* loops it starts under a shared cancellation context, and package        *)
(* server's HandleConnection, the earlier implementation of the protocol.  *)
(*                                                                         *)
(* A client's input is a byte stream; bufio.Reader.ReadString('\n') is     *)
(* modelled on bytes.  The temp directory is a map from file names to the  *)
(* connection whose spool file currently carries that name.  Command-line  *)
(* text is a sequence of characters.  Where output capture is studied the  *)
(* shell's two pipes are followed byte by byte.                            *)
(***************************************************************************)
EXTENDS Naturals, Sequences, FiniteSets

VARIABLES
    conns,      \* per accepted socket: the state of its HandleConnection call
    fs,         \* temp directory: name -> connection whose file has that name (0: no file)
    expo,       \* Service.expo, the export mapping (set of <<name, value>> pairs)
    ctxDone,    \* the cancellation context's Done channel is closed
    svcs,       \* per service: the state of its ListenAndServe call and its watcher
    main,       \* main: which argument it handles next, whether the process lives
    host,       \* what the process is started in: os.Args, the disk, the search path
    old,        \* package server's HandleConnection serving connection 1's client
                \* in a temp directory of its own
    proc        \* connection 1's shell and the two pipes its output goes through

vars == <<conns, fs, expo, ctxDone, svcs, main, host, old, proc>>

\* ------------------------------------------------------------------ bounds

MaxLines == 4       \* lines a client sends on one connection
NNames == 2         \* distinct temp-file names os.CreateTemp can draw
MaxAccepts == 1     \* connections the listeners accept in one run
MaxOutput == 3      \* bytes a shell writes to its two pipes together
PipeCap == 1        \* bytes a pipe holds before a write to it blocks

\* ------------------------------------------------------------------ data

NL == "\n"
Conns == {1, 2, 3}
Services == {1, 2}      \* one per shell[:addr][:port] argument given to main
Names == 1..NNames
NoFile == 0

\* Line contents a client may send (without terminator): the empty line, and
\* two texts of which one is a proper prefix of the other, so that either can
\* be the marker and the other a script line.
LineTexts == {<<>>, <<"M">>, <<"M", "a">>}

\* How a client's stream ends once its bytes are consumed: clean end-of-stream,
\* a read failure, or the client staying silent with the socket open.
Ends == {"eof", "err", "open"}

\* What a spawned shell may print.
Stdouts == {<<>>, <<"o">>}
Stderrs == {<<>>, <<"e">>}

\* What a shell run on a script file may do.  A script without a line prints
\* nothing; a shell whose script file is gone complains and fails; either exit
\* status is possible otherwise (a command, the login profile or a kill decides).
ShellOutcomes(present, script) ==
    IF ~present THEN {[stdout |-> <<>>, stderr |-> <<"e">>, failed |-> TRUE]}
    ELSE IF script = <<>> THEN {[stdout |-> <<>>, stderr |-> <<>>, failed |-> f] : f \in BOOLEAN}
    ELSE {[stdout |-> so, stderr |-> se, failed |-> f] :
              so \in Stdouts, se \in Stderrs, f \in BOOLEAN}

\* fmt.Sprintf("%s=%s", k, v): an environment entry, kept as its three parts.
EnvEntry(k, v) == <<k, "=", v>>

\* The variables a process finds in an environment given as entries: each
\* entry split at its "=".
EnvVars(entries) == {<<x[1], x[3]>> : x \in entries}

\* The relay process's own environment (os.Environ()).
Ambient == {EnvEntry("HOME", "/root"), EnvEntry("PATH", "/bin")}

\* Export mappings a Service may be constructed with.
ExportMaps == {{}, {<<"FOO", "bar">>, <<"PATH", "/x">>}}

\* Lines the handler writes to the client with fmt.Fprintf.
ErrReadMarker == "error: failed to read EOF marker\n"
ErrCreateTemp == "error: failed to create temp file\n"
ErrReadScript == "error: failed to read script\n"
ErrWriteScript == "error: failed to write script\n"
ErrStartShell == "error: failed to start shell\n"
ErrExecFailed == "error: script execution failed\n"

RECURSIVE SeqsUpTo(_, _)
SeqsUpTo(S, n) ==
    IF n = 0 THEN {<<>>}
    ELSE LET shorter == SeqsUpTo(S, n - 1)
         IN shorter \cup {Append(s, x) : s \in {t \in shorter : Len(t) = n - 1}, x \in S}

\* The bytes of a sequence of lines; every line but possibly the last is
\* newline-terminated.
RECURSIVE Flatten(_, _)
Flatten(ls, lastNL) ==
    IF ls = <<>> THEN <<>>
    ELSE IF Len(ls) = 1 THEN (IF lastNL THEN Append(ls[1], NL) ELSE ls[1])
    ELSE Append(ls[1], NL) \o Flatten(Tail(ls), lastNL)

Streams == {Flatten(ls, nl) : ls \in SeqsUpTo(LineTexts, MaxLines), nl \in BOOLEAN}

\* ------------------------------------------------------------------ helpers

HasNL(s) == \E i \in 1..Len(s) : s[i] = NL

FirstNL(s) == CHOOSE i \in 1..Len(s) : s[i] = NL /\ \A j \in 1..(i - 1) : s[j] # NL

\* ReadString as it would be if a final line without terminator were handed
\* over as a line.
ReadStringLenient(s, end) ==
    IF HasNL(s)
    THEN [line |-> SubSeq(s, 1, FirstNL(s)),
          rest |-> SubSeq(s, FirstNL(s) + 1, Len(s)),
          err  |-> "nil"]
    ELSE IF s # <<>> /\ end = "eof"
    THEN [line |-> s, rest |-> <<>>, err |-> "nil"]
    ELSE [line |-> s, rest |-> <<>>, err |-> end]

\* bufio.Reader.ReadString('\n') on a stream whose unread bytes are s and
\* which ends with `end`: the bytes up to and including the first newline, or
\* everything left together with the error that ended the stream.
ReadString(s, end) ==
    IF HasNL(s)
    THEN [line |-> SubSeq(s, 1, FirstNL(s)),
          rest |-> SubSeq(s, FirstNL(s) + 1, Len(s)),
          err  |-> "nil"]
    ELSE [line |-> s, rest |-> <<>>, err |-> end]

\* A read returns once a whole line is buffered or the stream has ended.
CanRead(s, end) == HasNL(s) \/ end # "open"

\* eofMarker[:len(eofMarker)-1]
StripLast(line) == SubSeq(line, 1, Len(line) - 1)

\* trimmed := line without one trailing '\n', if it has one
Trimmed(line) ==
    IF Len(line) > 0 /\ line[Len(line)] = NL THEN StripLast(line) ELSE line

\* export := []string{}; for k, v := range s.expo { export = append(export, k=v) }
ExportList(e) == {EnvEntry(p[1], p[2]) : p \in e}

NilEnv == [isNil |-> TRUE, entries |-> {}]

\* append(env, export...): appending nothing returns the slice unchanged, so a
\* nil slice stays nil.
AppendEnv(env, export) ==
    IF export = {} THEN env
    ELSE [isNil |-> FALSE, entries |-> env.entries \cup export]

\* os/exec: a Cmd whose Env is nil runs with the current process's environment.
ProcessEnv(env) == EnvVars(IF env.isNil THEN Ambient ELSE env.entries)

\* cmd.Env = append(cmd.Env, export...) on a fresh Cmd
CmdEnv(e) == AppendEnv(NilEnv, ExportList(e))

\* if len(b) > 0 { conn.Write(b) }
WriteIfAny(out, b) == IF Len(b) > 0 THEN out \o b ELSE out

\* ------------------------------------------------------------------ startup

\* defaultAddr, defaultPort as main has them without an -l flag
DefaultPort == 50135
DefaultAddr == <<"l">>

\* Command-line text is a sequence of characters: the characters of the
\* texts used below.
Chars(str) ==
    CASE str = "" -> <<>>
      [] str = "s" -> <<"s">>
      [] str = "z" -> <<"z">>
      [] str = " s" -> <<" ", "s">>
      [] str = "/b" -> <<"/", "b">>
      [] str = "/u" -> <<"/", "u">>
      [] str = "/c" -> <<"/", "c">>
      [] str = "/b/s" -> <<"/", "b", "/", "s">>
      [] str = "/u/s" -> <<"/", "u", "/", "s">>
      [] str = "/c/s" -> <<"/", "c", "/", "s">>
      [] str = "/x/s" -> <<"/", "x", "/", "s">>
      [] str = ":" -> <<":">>
      [] str = ":a" -> <<":", "a">>
      [] str = "::" -> <<":", ":">>
      [] str = ":a:" -> <<":", "a", ":">>
      [] str = "::x" -> <<":", ":", "x">>
      [] str = "::0" -> <<":", ":", "0">>
      [] str = "::8080" -> <<":", ":", "8", "0", "8", "0">>
      [] str = ":a:8080" -> <<":", "a", ":", "8", "0", "8", "0">>
      [] str = "::50135" -> <<":", ":", "5", "0", "1", "3", "5">>
      [] str = "::50136" -> <<":", ":", "5", "0", "1", "3", "6">>
      [] str = "::70000" -> <<":", ":", "7", "0", "0", "0", "0">>
      [] str = ":a:b:c" -> <<":", "a", ":", "b", ":", "c">>

\* Shell names and paths given on the command line.
ShellTexts == {Chars(t) : t \in {"", "s", "z", " s", "/b/s", "/u/s", "/x/s"}}

\* What may follow the shell in an argument.
Suffixes ==
    {Chars(t) : t \in {"", ":", ":a", "::", ":a:", "::x", "::0", "::8080", ":a:8080",
                       "::50135", "::50136", "::70000", ":a:b:c"}}

ArgTexts == ShellTexts \cup {Chars("s") \o x : x \in Suffixes}

\* The files a shell may be found at, and what is there.
ShellPaths == {Chars("/b/s"), Chars("/u/s"), Chars("/c/s")}
FileKinds == {"none", "exec", "file"}

\* The process's surroundings: arguments, working directory, $PATH, disk.
HostOf(args, disk) ==
    [args |-> args, cwd |-> Chars("/c"), searchPath |-> <<Chars("/b"), Chars("/u")>>,
     disk |-> disk]

Hosts ==
    {HostOf(args, disk) :
        args \in {a \in SeqsUpTo(ArgTexts, Cardinality(Services)) : a # <<>>},
        disk \in [ShellPaths -> FileKinds]}

\* The surroundings of the runs that start after main's argument loop.
PlainHost == HostOf(<<Chars("s")>>, [p \in ShellPaths |-> "exec"])

\* strings.TrimSpace
RECURSIVE TrimLeft(_)
TrimLeft(t) == IF t # <<>> /\ t[1] = " " THEN TrimLeft(Tail(t)) ELSE t
RECURSIVE TrimRight(_)
TrimRight(t) == IF t # <<>> /\ t[Len(t)] = " " THEN TrimRight(SubSeq(t, 1, Len(t) - 1)) ELSE t
TrimSpace(t) == TrimRight(TrimLeft(t))

\* strings.Split(arg, ":")
RECURSIVE Split(_)
Split(t) ==
    IF \E i \in 1..Len(t) : t[i] = ":"
    THEN LET i == CHOOSE j \in 1..Len(t) : t[j] = ":" /\ \A k \in 1..(j - 1) : t[k] # ":"
         IN <<SubSeq(t, 1, i - 1)>> \o Split(SubSeq(t, i + 1, Len(t)))
    ELSE <<t>>

DigitChars == <<"0", "1", "2", "3", "4", "5", "6", "7", "8", "9">>
IsDigit(ch) == \E d \in 1..Len(DigitChars) : DigitChars[d] = ch
DigitValue(ch) == (CHOOSE d \in 1..Len(DigitChars) : DigitChars[d] = ch) - 1

RECURSIVE Decimal(_)
Decimal(t) == IF t = <<>> THEN 0
              ELSE Decimal(SubSeq(t, 1, Len(t) - 1)) * Len(DigitChars) + DigitValue(t[Len(t)])

\* strconv.Atoi on unsigned text
Atoi(t) ==
    IF t # <<>> /\ \A i \in 1..Len(t) : IsDigit(t[i])
    THEN [val |-> Decimal(t), err |-> FALSE]
    ELSE [val |-> 0, err |-> TRUE]

\* filepath.IsAbs
IsAbs(t) == t # <<>> /\ t[1] = "/"

\* filepath.Join(dir, name)
Join(dir, name) == dir \o <<"/">> \o name

FileKind(h, path) == IF path \in DOMAIN h.disk THEN h.disk[path] ELSE "none"

\* exec.LookPath: a name with a slash is tried as it is, any other name in
\* each directory of the search path in order; only executables count.
RECURSIVE SearchIn(_, _, _)
SearchIn(h, dirs, file) ==
    IF dirs = <<>> THEN [path |-> <<>>, err |-> TRUE]
    ELSE IF FileKind(h, Join(dirs[1], file)) = "exec"
    THEN [path |-> Join(dirs[1], file), err |-> FALSE]
    ELSE SearchIn(h, Tail(dirs), file)

LookPath(h, file) ==
    IF \E i \in 1..Len(file) : file[i] = "/"
    THEN IF FileKind(h, file) = "exec" THEN [path |-> file, err |-> FALSE]
         ELSE [path |-> <<>>, err |-> TRUE]
    ELSE SearchIn(h, h.searchPath, file)

\* resolveShell: an absolute path as it is, a relative path found on disk
\* made absolute, any other name looked up on the search path.
resolveShell(h, shell0) ==
    LET shell == TrimSpace(shell0)
    IN IF shell = <<>> THEN [path |-> <<>>, err |-> TRUE]
       ELSE IF IsAbs(shell) THEN [path |-> shell, err |-> FALSE]
       ELSE IF FileKind(h, Join(h.cwd, shell)) = "none" THEN LookPath(h, shell)
       ELSE [path |-> Join(h.cwd, shell), err |-> FALSE]

ParseFailed == [shell |-> <<>>, addr |-> <<>>, port |-> 0, err |-> TRUE]

\* parseServiceArg(arg, defaultAddr, defaultPort)
parseServiceArg(h, arg, defaultAddr, defaultPort) ==
    LET parts == Split(arg)
        n == Len(parts)
        given == IF n = 3 /\ parts[3] # <<>> THEN Atoi(parts[3])
                 ELSE [val |-> 0, err |-> FALSE]
        addr0 == IF n \in {2, 3} /\ parts[2] # <<>> THEN parts[2] ELSE <<>>
        addr == IF addr0 = <<>> THEN defaultAddr ELSE addr0
        port == IF given.val = 0 THEN defaultPort ELSE given.val
        shell == resolveShell(h, parts[1])
    IN IF parts[1] = <<>> \/ n > 3 \/ given.err THEN ParseFailed
       ELSE IF port < 1 \/ port > 65535 THEN ParseFailed
       ELSE IF shell.err THEN ParseFailed
       ELSE [shell |-> shell.path, addr |-> addr, port |-> port, err |-> FALSE]

\* Make without the lookup of the shell it is given.
MakeUnchecked(h, shell, addr, port) ==
    [cmd |-> shell, addr |-> addr, port |-> port, err |-> FALSE]

\* srv.Make: exec.LookPath(shell) decides whether there is a Service.
Make(h, shell, addr, port) ==
    LET found == LookPath(h, shell)
    IN IF found.err THEN [cmd |-> <<>>, addr |-> addr, port |-> port, err |-> TRUE]
       ELSE [cmd |-> found.path, addr |-> addr, port |-> port, err |-> FALSE]

\* ------------------------------------------------------------------ state

NoConn ==
    [pc |-> "Idle", in |-> <<>>, end |-> "eof", eofMarker |-> <<>>,
     tmp |-> NoFile, tmpOpen |-> FALSE, spool |-> <<>>, deferred |-> {},
     out |-> <<>>, stdout |-> <<>>, stderr |-> <<>>, cmdErr |-> FALSE,
     closed |-> FALSE, hret |-> "none", svc |-> 0, killed |-> FALSE,
     \* history
     cycles |-> 0, closers |-> 0, nstart |-> 0, nrelay |-> 0, skipped |-> 0,
     mark |-> 0, relayEnd |-> 0,
     lastLine |-> <<>>, lastErr |-> "nil",
     procEnv |-> {}, ranOwner |-> NoFile, ranScript |-> <<>>, recv |-> <<>>]

\* What a handler is seen to do: where it is, what it has read, written,
\* spooled, launched and returned.
ServerIdle ==
    [pc |-> "Idle", in |-> <<>>, end |-> "eof", eofMarker |-> <<>>,
     tmp |-> NoFile, tmpOpen |-> FALSE, spool |-> <<>>, deferred |-> {},
     out |-> <<>>, stdout |-> <<>>, stderr |-> <<>>, cmdErr |-> FALSE,
     closed |-> FALSE, hret |-> "none",
     nstart |-> 0, procEnv |-> {}, ranOwner |-> NoFile, ranScript |-> <<>>]

Observable(k) == [f \in DOMAIN ServerIdle |-> k[f]]

\* package server's handler not in use.
NoOld == [conn |-> ServerIdle, fs |-> [n \in Names |-> NoFile]]

\* No shell is followed byte by byte.
NoProc ==
    [todo |-> <<>>, outPipe |-> <<>>, errPipe |-> <<>>, exited |-> FALSE,
     reader |-> "stdout", gotOut |-> <<>>, gotErr |-> <<>>]

\* A socket just handed to HandleConnection.
Accepted(s, stream, end) ==
    [NoConn EXCEPT !.pc = "Accepted", !.in = stream, !.end = end, !.svc = s]

\* g.Go(func() error { defer conn.Close(); return s.HandleConnection(ctx, conn) })
Spawned(rec) == [rec EXCEPT !.pc = "ReadMarker"]

NoService ==
    [pc |-> "Unstarted", lnOpen |-> FALSE, watcher |-> "none", acc |-> 0,
     accErr |-> FALSE, ret |-> "none", cmd |-> <<>>, addr |-> <<>>, port |-> 0]

\* A service whose ListenAndServe has bound its socket and blocks in Accept.
Listening == [NoService EXCEPT !.pc = "Accept", !.lnOpen = TRUE, !.watcher = "waiting"]

\* main blocked in g.Wait() with every service started.
MainWaiting == [pc |-> "wait", sig |-> FALSE]

\* main's export flag in the runs that are not about the environment.
ServeExports == {{}}

\* One service listening, one connection accepted and handed to its handler.
Init ==
    /\ \E stream \in Streams, end \in Ends :
           conns = [c \in Conns |-> IF c = 1 THEN Spawned(Accepted(1, stream, end))
                                    ELSE NoConn]
    /\ fs = [n \in Names |-> NoFile]
    /\ expo \in ExportMaps
    /\ ctxDone = FALSE
    /\ svcs = [s \in Services |-> IF s = 1 THEN Listening ELSE NoService]
    /\ main = MainWaiting
    /\ host = PlainHost
    /\ old = NoOld
    /\ proc = NoProc

\* ------------------------------------------------------------------ handler

\* The process has not exited: its goroutines still run.
Alive == main.pc # "exit"

\* A group made with errgroup.WithContext instead: a failing task cancels the context.
GroupTaskFailedCancels(done) == TRUE

\* var g errgroup.Group: a zero Group has no cancel function, so a task that
\* returns an error leaves the context as it is.
GroupTaskFailed(done) == done

\* The deferred os.Remove calls of a returning handler, each a no-op on a
\* name that no longer exists.
RunDeferred(files, names) == [n \in Names |-> IF n \in names THEN NoFile ELSE files[n]]

\* HandleConnection returns err: its deferred removals run, then the caller's
\* deferred conn.Close().
Return(c, rec, err, files) ==
    /\ conns' = [conns EXCEPT ![c] = [rec EXCEPT !.pc = "Done", !.hret = err,
                                                 !.closed = TRUE, !.tmpOpen = FALSE]]
    /\ fs' = RunDeferred(files, rec.deferred)

\* The end-of-stream test left out: every read error is reported to the client.
IsEOFNever(err) == FALSE

\* errors.Is(err, io.EOF) in AwaitMarker, err == io.EOF in ReceivingScript
IsEOF(err) == err = "eof"

\* The emptiness test left out: every line is a marker.
IsEmptyMarkerNever(m) == FALSE

\* if len(eofMarker) == 0 { continue }
IsEmptyMarker(m) == Len(m) = 0

\* One pass of the outer loop up to the marker: read a line; a read error ends
\* the handler, an empty line is skipped, any other line is the cycle's marker.
ReadMarker(c) ==
    LET k == conns[c]
        r == ReadString(k.in, k.end)
        k1 == [k EXCEPT !.in = r.rest, !.lastLine = r.line, !.lastErr = r.err]
    IN /\ Alive
       /\ k.pc = "ReadMarker"
       /\ CanRead(k.in, k.end)
       /\ IF r.err # "nil"
          THEN Return(c, [k1 EXCEPT !.out = IF ~IsEOF(r.err)
                                             THEN Append(k.out, ErrReadMarker)
                                             ELSE k.out], "nil", fs)
          ELSE IF IsEmptyMarker(StripLast(r.line))
          THEN /\ conns' = [conns EXCEPT ![c] = [k1 EXCEPT !.skipped = k.skipped + 1]]
               /\ fs' = fs
          ELSE /\ conns' = [conns EXCEPT ![c] =
                                [k1 EXCEPT !.eofMarker = StripLast(r.line),
                                           !.cycles = k.cycles + 1,
                                           !.mark = Len(k.out),
                                           !.pc = "CreateTemp"]]
               /\ fs' = fs
       /\ UNCHANGED <<proc, old, host, expo, ctxDone, svcs, main>>

\* os.CreateTemp("", "relay-script-*"): a name no existing file has, or an error.
CreateTemp(c) ==
    LET k == conns[c]
    IN /\ Alive
       /\ k.pc = "CreateTemp"
       /\ \E ok \in BOOLEAN :
            IF ok /\ \E n \in Names : fs[n] = NoFile
            THEN \E n \in {m \in Names : fs[m] = NoFile} :
                   /\ conns' = [conns EXCEPT ![c] =
                                    [k EXCEPT !.tmp = n, !.tmpOpen = TRUE, !.spool = <<>>,
                                              !.recv = <<>>,
                                              !.deferred = k.deferred \cup {n},
                                              !.pc = "ReadScript"]]
                   /\ fs' = [fs EXCEPT ![n] = c]
            ELSE Return(c, [k EXCEPT !.out = Append(k.out, ErrCreateTemp)], "err", fs)
       /\ UNCHANGED <<proc, old, host, expo, ctxDone, svcs, main>>

\* The comparison as a prefix test: a line that starts with the marker ends the script.
IsClosingMarkerPrefix(line, marker) ==
    Len(line) >= Len(marker) /\ SubSeq(line, 1, Len(marker)) = marker

\* if trimmed == eofMarker { break }
IsClosingMarker(line, marker) == Trimmed(line) = marker

\* One pass of the inner loop: read a line; the marker ends the script
\* (tmpFile.Close()), any other line is written to the spool file.
ReadScript(c) ==
    LET k == conns[c]
        r == ReadString(k.in, k.end)
        k1 == [k EXCEPT !.in = r.rest, !.lastLine = r.line, !.lastErr = r.err]
    IN /\ Alive
       /\ k.pc = "ReadScript"
       /\ CanRead(k.in, k.end)
       /\ IF r.err # "nil"
          THEN Return(c, [k1 EXCEPT !.out = IF ~IsEOF(r.err)
                                             THEN Append(k.out, ErrReadScript)
                                             ELSE k.out], "nil", fs)
          ELSE IF IsClosingMarker(r.line, k.eofMarker)
          THEN /\ conns' = [conns EXCEPT ![c] =
                                [k1 EXCEPT !.tmpOpen = FALSE, !.closers = k.closers + 1,
                                           !.pc = "Start"]]
               /\ fs' = fs
          ELSE \E wrote \in BOOLEAN :
                 IF wrote
                 THEN /\ conns' = [conns EXCEPT ![c] =
                                       [k1 EXCEPT !.spool = k.spool \o r.line,
                                                  !.recv = k.recv \o r.line]]
                      /\ fs' = fs
                 ELSE Return(c, [k1 EXCEPT !.recv = k.recv \o r.line,
                                           !.out = Append(k.out, ErrWriteScript)], "nil", fs)
       /\ UNCHANGED <<proc, old, host, expo, ctxDone, svcs, main>>

\* The script a shell started on file name n finds there: the spool of the
\* connection whose file carries the name now.
ScriptAt(n) == IF fs[n] = NoFile THEN <<>> ELSE conns[fs[n]].spool

\* Start as it would be if the shell were left running on its own while the
\* handler went on to the next marker.
StartDetached(c) ==
    LET k == conns[c]
    IN /\ Alive
       /\ k.pc = "Start"
       /\ \E ok \in (IF ctxDone THEN {FALSE} ELSE BOOLEAN) :
            IF ok
            THEN /\ conns' = [conns EXCEPT ![c] =
                                  [k EXCEPT !.procEnv = ProcessEnv(CmdEnv(expo)),
                                            !.ranOwner = fs[k.tmp],
                                            !.ranScript = ScriptAt(k.tmp),
                                            !.nstart = k.nstart + 1,
                                            !.pc = "ReadMarker"]]
                 /\ fs' = fs
            ELSE Return(c, [k EXCEPT !.out = Append(k.out, ErrStartShell)], "nil", fs)
       /\ UNCHANGED <<proc, old, host, expo, ctxDone, svcs, main>>

\* Start as it would be if a failed launch continued with the next cycle.
StartContinues(c) ==
    LET k == conns[c]
    IN /\ Alive
       /\ k.pc = "Start"
       /\ \E ok \in (IF ctxDone THEN {FALSE} ELSE BOOLEAN) :
            IF ok
            THEN /\ conns' = [conns EXCEPT ![c] =
                                  [k EXCEPT !.procEnv = ProcessEnv(CmdEnv(expo)),
                                            !.ranOwner = fs[k.tmp],
                                            !.ranScript = ScriptAt(k.tmp),
                                            !.nstart = k.nstart + 1,
                                            !.pc = "Wait"]]
                 /\ fs' = fs
            ELSE /\ conns' = [conns EXCEPT ![c] =
                                  [k EXCEPT !.out = Append(k.out, ErrStartShell),
                                            !.pc = "ReadMarker"]]
                 /\ fs' = fs
       /\ UNCHANGED <<proc, old, host, expo, ctxDone, svcs, main>>

\* exec.CommandContext(ctx, s.cmd, "-l", tmpFile.Name()), cmd.Env, cmd.Start().
\* Start fails when the context is already done or the executable cannot be run.
Start(c) ==
    LET k == conns[c]
    IN /\ Alive
       /\ k.pc = "Start"
       /\ \E ok \in (IF ctxDone THEN {FALSE} ELSE BOOLEAN) :
            IF ok
            THEN /\ conns' = [conns EXCEPT ![c] =
                                  [k EXCEPT !.procEnv = ProcessEnv(CmdEnv(expo)),
                                            !.ranOwner = fs[k.tmp],
                                            !.ranScript = ScriptAt(k.tmp),
                                            !.nstart = k.nstart + 1,
                                            !.pc = "Wait"]]
                 /\ fs' = fs
            ELSE Return(c, [k EXCEPT !.out = Append(k.out, ErrStartShell)], "nil", fs)
       /\ UNCHANGED <<proc, old, host, expo, ctxDone, svcs, main>>

\* cmd.Wait() of a shell the context's cancellation has killed returns an error.
WaitErr(killed, failed) == killed => failed

\* io.ReadAll(stdoutPipe), io.ReadAll(stderrPipe), cmd.Wait(): whatever the
\* shell printed and whether it exited with failure.
Wait(c) ==
    LET k == conns[c]
    IN /\ Alive
       /\ k.pc = "Wait"
       /\ \E o \in ShellOutcomes(k.ranOwner # NoFile, k.ranScript) :
            /\ WaitErr(k.killed, o.failed)
            /\ conns' = [conns EXCEPT ![c] =
                             [k EXCEPT !.stdout = o.stdout, !.stderr = o.stderr,
                                       !.cmdErr = o.failed, !.pc = "Relay"]]
       /\ UNCHANGED <<proc, old, host, fs, expo, ctxDone, svcs, main>>

\* The relay with the two streams in the other order.
RelayWritesSwapped(out, stdout, stderr, cmdErr) ==
    LET relayed == WriteIfAny(WriteIfAny(out, stderr), stdout)
    IN IF cmdErr THEN Append(relayed, ErrExecFailed) ELSE relayed

\* What lines 224-243 write to the client: stdout if any, then stderr if any,
\* then the failure line when cmd.Wait() returned an error.
RelayWrites(out, stdout, stderr, cmdErr) ==
    LET relayed == WriteIfAny(WriteIfAny(out, stdout), stderr)
    IN IF cmdErr THEN Append(relayed, ErrExecFailed) ELSE relayed

\* os.Remove(name): unlinks whatever file carries the name; no file, no effect.
OsRemove(files, n) == [files EXCEPT ![n] = NoFile]

\* The decision the other way round: continue after success, return after failure.
ContinueInverted(cmdErr) == ~cmdErr

\* if cmdErr != nil { ...; continue }; return nil
ContinueAfter(cmdErr) == cmdErr

\* Relay the captured output, remove the spool file, then either report the
\* failure and continue with the next cycle or return.
Relay(c) ==
    LET k == conns[c]
        written == RelayWrites(k.out, k.stdout, k.stderr, k.cmdErr)
        k1 == [k EXCEPT !.out = written, !.nrelay = k.nrelay + 1,
                        !.relayEnd = Len(written)]
    IN /\ Alive
       /\ k.pc = "Relay"
       /\ IF ContinueAfter(k.cmdErr)
          THEN /\ conns' = [conns EXCEPT ![c] = [k1 EXCEPT !.pc = "ReadMarker"]]
               /\ fs' = OsRemove(fs, k.tmp)
          ELSE Return(c, k1, "nil", OsRemove(fs, k.tmp))
       /\ UNCHANGED <<proc, old, host, expo, ctxDone, svcs, main>>

HandleConnection(c) ==
    \/ ReadMarker(c)
    \/ CreateTemp(c)
    \/ ReadScript(c)
    \/ Start(c)
    \/ Wait(c)
    \/ Relay(c)

Next == \E c \in Conns : HandleConnection(c)

Spec == Init /\ [][Next]_vars

\* ------------------------------------------------------------------ concurrent handlers

\* What the clients of concurrently handled connections send: an empty script
\* or a one-line script, under the same marker, then they close.
ConcStreams ==
    {Flatten(ls, TRUE) : ls \in {<<<<"M">>, <<"M">>>>, <<<<"M">>, <<"M", "a">>, <<"M">>>>}}

\* One service listening; every connection accepted and handed to a handler of
\* its own.
InitConc ==
    /\ conns \in [Conns -> {Spawned(Accepted(1, stream, "eof")) : stream \in ConcStreams}]
    /\ fs = [n \in Names |-> NoFile]
    /\ expo \in ServeExports
    /\ ctxDone = FALSE
    /\ svcs = [s \in Services |-> IF s = 1 THEN Listening ELSE NoService]
    /\ main = MainWaiting
    /\ host = PlainHost
    /\ old = NoOld
    /\ proc = NoProc

SpecConc == InitConc /\ [][Next]_vars

\* ------------------------------------------------------------------ listener

\* What clients of the listeners do: connect and stay silent, or send one
\* empty script and close.
ServeClients ==
    {[in |-> <<>>, end |-> "open"],
     [in |-> Flatten(<<<<"M">>, <<"M">>>>, TRUE), end |-> "eof"]}


\* The loop's return if it handed back the accept error it was holding.
ServeResultAcceptErr(sv) == IF sv.accErr THEN "err" ELSE "nil"

\* return nil (the loop's only return after a successful bind)
ServeResult(sv) == "nil"

\* ln, err := new(net.ListenConfig).Listen(...): on error return it, else
\* defer ln.Close(), start the watcher, enter the loop.
Listen(s) ==
    LET sv == svcs[s]
    IN /\ Alive
       /\ sv.pc = "Listen"
       /\ \E bound \in BOOLEAN :
            /\ svcs' = [svcs EXCEPT ![s] =
                            IF bound
                            THEN [sv EXCEPT !.pc = "Accept", !.lnOpen = TRUE,
                                            !.watcher = "waiting"]
                            ELSE [sv EXCEPT !.pc = "Returned", !.ret = "err"]]
            /\ ctxDone' = IF bound THEN ctxDone ELSE GroupTaskFailed(ctxDone)
       /\ UNCHANGED <<proc, old, host, conns, fs, expo, main>>

NAccepted == Cardinality({c \in Conns : conns[c].pc # "Idle"})

\* ln.Accept() returns a new connection.
AcceptConn(s) ==
    LET sv == svcs[s]
        c == CHOOSE i \in Conns : conns[i].pc = "Idle" /\ \A j \in Conns : j < i => conns[j].pc # "Idle"
    IN /\ Alive
       /\ sv.pc = "Accept"
       /\ sv.lnOpen
       /\ NAccepted < MaxAccepts
       /\ \E i \in Conns : conns[i].pc = "Idle"
       /\ \E cl \in ServeClients :
            conns' = [conns EXCEPT ![c] = Accepted(s, cl.in, cl.end)]
       /\ svcs' = [svcs EXCEPT ![s] = [sv EXCEPT !.pc = "Select", !.acc = c,
                                                 !.accErr = FALSE]]
       /\ UNCHANGED <<proc, old, host, fs, expo, ctxDone, main>>

\* ln.Accept() fails on an open listener (a transient error).
AcceptError(s) ==
    LET sv == svcs[s]
    IN /\ Alive
       /\ sv.pc = "Accept"
       /\ sv.lnOpen
       /\ svcs' = [svcs EXCEPT ![s] = [sv EXCEPT !.pc = "Select", !.acc = 0, !.accErr = TRUE]]
       /\ UNCHANGED <<proc, old, host, conns, fs, expo, ctxDone, main>>

\* ln.Accept() fails because the listener has been closed.
AcceptClosed(s) ==
    LET sv == svcs[s]
    IN /\ Alive
       /\ sv.pc = "Accept"
       /\ ~sv.lnOpen
       /\ svcs' = [svcs EXCEPT ![s] = [sv EXCEPT !.pc = "Select", !.acc = 0, !.accErr = TRUE]]
       /\ UNCHANGED <<proc, old, host, conns, fs, expo, ctxDone, main>>

\* select { case <-ctx.Done(): return nil; default: err -> continue, else g.Go(handler) }
Select(s) ==
    LET sv == svcs[s]
    IN /\ Alive
       /\ sv.pc = "Select"
       /\ IF ctxDone
          THEN /\ svcs' = [svcs EXCEPT ![s] = [sv EXCEPT !.pc = "Returned",
                                                         !.ret = ServeResult(sv),
                                                         !.lnOpen = FALSE]]
               /\ conns' = conns
          ELSE /\ svcs' = [svcs EXCEPT ![s] = [sv EXCEPT !.pc = "Accept", !.acc = 0,
                                                         !.accErr = FALSE]]
               /\ conns' = IF sv.accErr THEN conns
                           ELSE [conns EXCEPT ![sv.acc] = Spawned(@)]
       /\ UNCHANGED <<proc, old, host, fs, expo, ctxDone, main>>

\* The watcher without its ln.Close().
WatcherNoClose(s) ==
    LET sv == svcs[s]
    IN /\ Alive
       /\ sv.watcher = "waiting"
       /\ ctxDone
       /\ svcs' = [svcs EXCEPT ![s] = [sv EXCEPT !.watcher = "done"]]
       /\ UNCHANGED <<proc, old, host, conns, fs, expo, ctxDone, main>>

\* go func() { <-ctx.Done(); ln.Close() }()
Watcher(s) ==
    LET sv == svcs[s]
    IN /\ Alive
       /\ sv.watcher = "waiting"
       /\ ctxDone
       /\ svcs' = [svcs EXCEPT ![s] = [sv EXCEPT !.watcher = "done", !.lnOpen = FALSE]]
       /\ UNCHANGED <<proc, old, host, conns, fs, expo, ctxDone, main>>

\* A cancel that also shut every accepted socket down: pending reads fail.
CancelClosesConns ==
    /\ Alive
    /\ ~ctxDone
    /\ ctxDone' = TRUE
    /\ main' = [main EXCEPT !.sig = TRUE]
    /\ conns' = [c \in Conns |-> IF conns[c].pc \in {"Idle", "Done"} THEN conns[c]
                                  ELSE [conns[c] EXCEPT !.end = "err"]]
    /\ UNCHANGED <<proc, old, host, fs, expo, svcs>>

\* go func() { <-signalChan; cancel() }()
Cancel ==
    /\ Alive
    /\ ~ctxDone
    /\ ctxDone' = TRUE
    /\ main' = [main EXCEPT !.sig = TRUE]
    /\ UNCHANGED <<proc, old, host, conns, fs, expo, svcs>>

\* g.Wait() returns once every ListenAndServe has returned; main returns, its
\* deferred cancel() runs and the process exits.
MainWait ==
    /\ main.pc = "wait"
    /\ \A s \in Services : svcs[s].pc = "Returned"
    /\ main' = [main EXCEPT !.pc = "exit"]
    /\ ctxDone' = TRUE
    /\ UNCHANGED <<proc, old, host, conns, fs, expo, svcs>>

ListenAndServe(s) ==
    \/ Listen(s)
    \/ AcceptConn(s)
    \/ AcceptError(s)
    \/ AcceptClosed(s)
    \/ Select(s)
    \/ Watcher(s)

\* main has started ListenAndServe for every service and blocks in g.Wait().
InitServe ==
    /\ conns = [c \in Conns |-> NoConn]
    /\ fs = [n \in Names |-> NoFile]
    /\ expo \in ServeExports
    /\ ctxDone = FALSE
    /\ svcs = [s \in Services |-> [NoService EXCEPT !.pc = "Listen"]]
    /\ main = MainWaiting
    /\ host = PlainHost
    /\ old = NoOld
    /\ proc = NoProc

NextServe ==
    \/ MainWait
    \/ Cancel
    \/ \E s \in Services : ListenAndServe(s)
    \/ \E c \in Conns : HandleConnection(c)

SpecServe == InitServe /\ [][NextServe]_vars

\* The goroutines of a listener are scheduled: its watcher runs once the
\* context is done, an accept on a closed listener returns, and the loop goes
\* on from the accept's result.  Clients and the interrupt signal owe nothing.
SpecServeFair ==
    /\ SpecServe
    /\ \A s \in Services :
          /\ WF_vars(Watcher(s))
          /\ WF_vars(AcceptClosed(s))
          /\ WF_vars(Select(s))

\* ------------------------------------------------------------------ cancellation and running shells

\* exec.CommandContext(ctx, ...): once the context is done, the command's
\* watcher kills the shell it has started and cmd.Wait() has not yet reaped.
Kill(c) ==
    LET k == conns[c]
    IN /\ Alive
       /\ ctxDone
       /\ k.pc = "Wait"
       /\ ~k.killed
       /\ conns' = [conns EXCEPT ![c] = [k EXCEPT !.killed = TRUE]]
       /\ UNCHANGED <<proc, old, host, fs, expo, ctxDone, svcs, main>>

\* What the clients of a service that is shut down send: connection 1 two
\* empty scripts under the same marker, the socket then kept open or closed;
\* connection 2 one empty script.
CancelClients ==
    {[c \in {1, 2} |-> IF c = 1
                       THEN [in |-> Flatten(<<<<"M">>, <<"M">>, <<"M">>, <<"M">>>>, TRUE),
                             end |-> e]
                       ELSE [in |-> Flatten(<<<<"M">>, <<"M">>>>, TRUE), end |-> "eof"]] :
         e \in {"open", "eof"}}

\* Service 1 blocked in Accept with two connections handed to handlers, the
\* ListenAndServe of service 2 returned on a bind error, main in g.Wait().
InitCancel ==
    /\ conns \in {[c \in Conns |-> IF c = 3 THEN NoConn
                                   ELSE Spawned(Accepted(1, f[c].in, f[c].end))] :
                     f \in CancelClients}
    /\ fs = [n \in Names |-> NoFile]
    /\ expo \in ServeExports
    /\ ctxDone = FALSE
    /\ svcs = [s \in Services |-> IF s = 1 THEN Listening
                                  ELSE [NoService EXCEPT !.pc = "Returned", !.ret = "err"]]
    /\ main = MainWaiting
    /\ host = PlainHost
    /\ old = NoOld
    /\ proc = NoProc

NextCancel ==
    \/ MainWait
    \/ Cancel
    \/ Watcher(1)
    \/ AcceptClosed(1)
    \/ Select(1)
    \/ \E c \in Conns : Kill(c)
    \/ \E c \in Conns : HandleConnection(c)

SpecCancel == InitCancel /\ [][NextCancel]_vars

\* The goroutines of the program are scheduled as long as it runs: the
\* listener's as in SpecServeFair, and the watcher of every started command.
\* The interrupt signal, the clients and the shells owe nothing.
SpecCancelFair ==
    /\ SpecCancel
    /\ WF_vars(Watcher(1))
    /\ WF_vars(AcceptClosed(1))
    /\ WF_vars(Select(1))
    /\ \A c \in Conns : WF_vars(Kill(c))

\* ------------------------------------------------------------------ main's argument loop

\* main about to handle its first argument.
MainStarting == [pc |-> "args", sig |-> FALSE, next |-> 1, portOffset |-> 0]

\* if port == currentDefaultPort { portOffset++ }
NextOffset(offset, port, currentDefaultPort) ==
    IF port = currentDefaultPort THEN offset + 1 ELSE offset

\* One pass of for _, arg := range args: parse the argument, make the Service
\* and start its ListenAndServe; os.Exit(1) if either fails.
MainGo ==
    LET i == main.next
        currentDefaultPort == DefaultPort + main.portOffset
        parsed == parseServiceArg(host, host.args[i], DefaultAddr, currentDefaultPort)
        made == Make(host, parsed.shell, parsed.addr, parsed.port)
    IN /\ main.pc = "args"
       /\ IF parsed.err \/ made.err
          THEN /\ main' = [main EXCEPT !.pc = "exit"]
               /\ svcs' = svcs
          ELSE /\ main' = [main EXCEPT
                               !.next = i + 1,
                               !.portOffset = NextOffset(main.portOffset, parsed.port,
                                                         currentDefaultPort),
                               !.pc = IF i = Len(host.args) THEN "wait" ELSE "args"]
               /\ svcs' = [svcs EXCEPT ![i] = [NoService EXCEPT !.pc = "Listen",
                                                                !.cmd = made.cmd,
                                                                !.addr = made.addr,
                                                                !.port = made.port]]
       /\ UNCHANGED <<proc, old, host, conns, fs, expo, ctxDone>>

InitMain ==
    /\ conns = [c \in Conns |-> NoConn]
    /\ fs = [n \in Names |-> NoFile]
    /\ expo \in ServeExports
    /\ ctxDone = FALSE
    /\ svcs = [s \in Services |-> NoService]
    /\ main = MainStarting
    /\ host \in Hosts
    /\ old = NoOld
    /\ proc = NoProc

NextMain ==
    \/ MainGo
    \/ \E s \in Services : Listen(s)

SpecMain == InitMain /\ [][NextMain]_vars

\* ------------------------------------------------------------------ package server

\* package server's HandleConnection (the implementation without exports) is
\* run on the bytes connection 1's client sends, one step behind package
\* srv's handler, and meets what that handler has just met: the same temp
\* name or failure from os.CreateTemp, the same result of WriteString and of
\* cmd.Start, the same output and exit status of the shell.

\* The two handlers have come equally far and are seen to have done the same.
InSync == old.conn = Observable(conns[1]) /\ old.fs = fs

\* A Cmd whose Env was set to an empty, non-nil slice.
ServerEnvEmpty == [isNil |-> FALSE, entries |-> {}]

\* cmd.Env of server's handler: never assigned
ServerEnv == NilEnv

ServerReturn(rec, err, files) ==
    old' = [conn |-> [rec EXCEPT !.pc = "Done", !.hret = err, !.closed = TRUE,
                                 !.tmpOpen = FALSE],
            fs |-> RunDeferred(files, rec.deferred)]

ServerReadMarker ==
    LET k == old.conn
        r == ReadString(k.in, k.end)
        k1 == [k EXCEPT !.in = r.rest]
    IN /\ ~InSync
       /\ k.pc = "ReadMarker"
       /\ CanRead(k.in, k.end)
       /\ IF r.err # "nil"
          THEN ServerReturn([k1 EXCEPT !.out = IF r.err # "eof"
                                               THEN Append(k.out, ErrReadMarker)
                                               ELSE k.out], "nil", old.fs)
          ELSE IF Len(StripLast(r.line)) = 0
          THEN old' = [old EXCEPT !.conn = k1]
          ELSE old' = [old EXCEPT !.conn = [k1 EXCEPT !.eofMarker = StripLast(r.line),
                                                      !.pc = "CreateTemp"]]
       /\ UNCHANGED <<conns, fs, expo, ctxDone, svcs, main, host, proc>>

ServerCreateTemp ==
    LET k == old.conn
        ok == conns[1].pc = "ReadScript"
        n == conns[1].tmp
    IN /\ ~InSync
       /\ k.pc = "CreateTemp"
       /\ IF ok /\ n \in Names /\ old.fs[n] = NoFile
          THEN old' = [conn |-> [k EXCEPT !.tmp = n, !.tmpOpen = TRUE, !.spool = <<>>,
                                          !.deferred = k.deferred \cup {n},
                                          !.pc = "ReadScript"],
                       fs |-> [old.fs EXCEPT ![n] = 1]]
          ELSE ServerReturn([k EXCEPT !.out = Append(k.out, ErrCreateTemp)], "err", old.fs)
       /\ UNCHANGED <<conns, fs, expo, ctxDone, svcs, main, host, proc>>

ServerReadScript ==
    LET k == old.conn
        r == ReadString(k.in, k.end)
        k1 == [k EXCEPT !.in = r.rest]
        wrote == conns[1].pc = "ReadScript"
    IN /\ ~InSync
       /\ k.pc = "ReadScript"
       /\ CanRead(k.in, k.end)
       /\ IF r.err # "nil"
          THEN ServerReturn([k1 EXCEPT !.out = IF r.err # "eof"
                                               THEN Append(k.out, ErrReadScript)
                                               ELSE k.out], "nil", old.fs)
          ELSE IF Trimmed(r.line) = k.eofMarker
          THEN old' = [old EXCEPT !.conn = [k1 EXCEPT !.tmpOpen = FALSE, !.pc = "Start"]]
          ELSE IF wrote
          THEN old' = [old EXCEPT !.conn = [k1 EXCEPT !.spool = k.spool \o r.line]]
          ELSE ServerReturn([k1 EXCEPT !.out = Append(k.out, ErrWriteScript)], "nil", old.fs)
       /\ UNCHANGED <<conns, fs, expo, ctxDone, svcs, main, host, proc>>

ServerStart ==
    LET k == old.conn
        ok == ~ctxDone /\ conns[1].pc = "Wait"
    IN /\ ~InSync
       /\ k.pc = "Start"
       /\ IF ok
          THEN old' = [old EXCEPT !.conn =
                          [k EXCEPT !.procEnv = ProcessEnv(ServerEnv),
                                    !.ranOwner = old.fs[k.tmp],
                                    !.ranScript = IF old.fs[k.tmp] = NoFile THEN <<>>
                                                  ELSE k.spool,
                                    !.nstart = k.nstart + 1,
                                    !.pc = "Wait"]]
          ELSE ServerReturn([k EXCEPT !.out = Append(k.out, ErrStartShell)], "nil", old.fs)
       /\ UNCHANGED <<conns, fs, expo, ctxDone, svcs, main, host, proc>>

ServerWait ==
    LET k == old.conn
    IN /\ ~InSync
       /\ k.pc = "Wait"
       /\ old' = [old EXCEPT !.conn = [k EXCEPT !.stdout = conns[1].stdout,
                                                !.stderr = conns[1].stderr,
                                                !.cmdErr = conns[1].cmdErr,
                                                !.pc = "Relay"]]
       /\ UNCHANGED <<conns, fs, expo, ctxDone, svcs, main, host, proc>>

ServerRelay ==
    LET k == old.conn
        relayed == WriteIfAny(WriteIfAny(k.out, k.stdout), k.stderr)
    IN /\ ~InSync
       /\ k.pc = "Relay"
       /\ IF k.cmdErr
          THEN old' = [conn |-> [k EXCEPT !.out = Append(relayed, ErrExecFailed),
                                          !.pc = "ReadMarker"],
                       fs |-> OsRemove(old.fs, k.tmp)]
          ELSE ServerReturn([k EXCEPT !.out = relayed], "nil", OsRemove(old.fs, k.tmp))
       /\ UNCHANGED <<conns, fs, expo, ctxDone, svcs, main, host, proc>>

ServerHandleConnection ==
    \/ ServerReadMarker
    \/ ServerCreateTemp
    \/ ServerReadScript
    \/ ServerStart
    \/ ServerWait
    \/ ServerRelay

\* The same client connected to either implementation.
InitEquiv ==
    /\ \E stream \in Streams, end \in Ends :
          /\ conns = [c \in Conns |-> IF c = 1 THEN Spawned(Accepted(1, stream, end))
                                       ELSE NoConn]
          /\ old = [NoOld EXCEPT !.conn = Observable(Spawned(Accepted(1, stream, end)))]
    /\ fs = [n \in Names |-> NoFile]
    /\ expo \in ServeExports
    /\ ctxDone = FALSE
    /\ svcs = [s \in Services |-> IF s = 1 THEN Listening ELSE NoService]
    /\ main = MainWaiting
    /\ host = PlainHost
    /\ proc = NoProc

\* srv's handler takes a step when the two are level, server's follows.
NextEquiv ==
    \/ InSync /\ ReadMarker(1)
    \/ InSync /\ CreateTemp(1)
    \/ InSync /\ ReadScript(1)
    \/ InSync /\ Start(1)
    \/ InSync /\ Wait(1)
    \/ InSync /\ Relay(1)
    \/ ServerHandleConnection

SpecEquiv == InitEquiv /\ [][NextEquiv]_vars

\* ------------------------------------------------------------------ output capture

\* What a script makes its shell write, byte by byte: "o" to stdout, "e" to
\* stderr, in any order; then the shell exits.
Programs == SeqsUpTo({"o", "e"}, MaxOutput)

\* The shell of connection 1 runs: started, not yet waited for.
ShellRuns == conns[1].pc = "Wait"

\* The shell's next write finds its pipe full.
WriteBlocked ==
    /\ proc.todo # <<>>
    /\ Len(IF proc.todo[1] = "o" THEN proc.outPipe ELSE proc.errPipe) >= PipeCap

\* The shell writes its next byte to the pipe it is for, if there is room.
ProcWrite ==
    /\ Alive
    /\ ShellRuns
    /\ proc.todo # <<>>
    /\ ~WriteBlocked
    /\ proc' = IF proc.todo[1] = "o"
               THEN [proc EXCEPT !.todo = Tail(@), !.outPipe = Append(@, "o")]
               ELSE [proc EXCEPT !.todo = Tail(@), !.errPipe = Append(@, "e")]
    /\ UNCHANGED <<conns, fs, expo, ctxDone, svcs, main, host, old>>

\* The shell exits: the write ends of both pipes are closed.
ProcExit ==
    /\ Alive
    /\ ShellRuns
    /\ proc.todo = <<>>
    /\ ~proc.exited
    /\ proc' = [proc EXCEPT !.exited = TRUE]
    /\ UNCHANGED <<conns, fs, expo, ctxDone, svcs, main, host, old>>

\* stdout, _ := io.ReadAll(stdoutPipe): take what the pipe holds; at
\* end-of-stream go on to stderr; block otherwise.
ReadStdout ==
    /\ Alive
    /\ ShellRuns
    /\ proc.reader = "stdout"
    /\ IF proc.outPipe # <<>>
       THEN proc' = [proc EXCEPT !.gotOut = @ \o proc.outPipe, !.outPipe = <<>>]
       ELSE /\ proc.exited
            /\ proc' = [proc EXCEPT !.reader = "stderr"]
    /\ UNCHANGED <<conns, fs, expo, ctxDone, svcs, main, host, old>>

\* stderr, _ := io.ReadAll(stderrPipe)
ReadStderr ==
    /\ Alive
    /\ ShellRuns
    /\ proc.reader = "stderr"
    /\ IF proc.errPipe # <<>>
       THEN proc' = [proc EXCEPT !.gotErr = @ \o proc.errPipe, !.errPipe = <<>>]
       ELSE /\ proc.exited
            /\ proc' = [proc EXCEPT !.reader = "wait"]
    /\ UNCHANGED <<conns, fs, expo, ctxDone, svcs, main, host, old>>

\* cmdErr := cmd.Wait()
CmdWait ==
    /\ Alive
    /\ ShellRuns
    /\ proc.reader = "wait"
    /\ proc.exited
    /\ \E failed \in BOOLEAN :
         conns' = [conns EXCEPT ![1] = [@ EXCEPT !.stdout = proc.gotOut,
                                                 !.stderr = proc.gotErr,
                                                 !.cmdErr = failed,
                                                 !.pc = "Relay"]]
    /\ UNCHANGED <<proc, fs, expo, ctxDone, svcs, main, host, old>>

\* One client sends a one-line script; what the script prints is any program.
InitPipes ==
    /\ conns = [c \in Conns |->
                   IF c = 1
                   THEN Spawned(Accepted(1, Flatten(<<<<"M">>, <<"M", "a">>, <<"M">>>>, TRUE),
                                         "eof"))
                   ELSE NoConn]
    /\ fs = [n \in Names |-> NoFile]
    /\ expo \in ServeExports
    /\ ctxDone = FALSE
    /\ svcs = [s \in Services |-> IF s = 1 THEN Listening ELSE NoService]
    /\ main = MainWaiting
    /\ host = PlainHost
    /\ old = NoOld
    /\ \E program \in Programs : proc = [NoProc EXCEPT !.todo = program]

\* The handler of connection 1 with its wait for the shell taken apart.
NextPipes ==
    \/ ReadMarker(1)
    \/ CreateTemp(1)
    \/ ReadScript(1)
    \/ Start(1)
    \/ ProcWrite
    \/ ProcExit
    \/ ReadStdout
    \/ ReadStderr
    \/ CmdWait
    \/ Relay(1)

SpecPipes == InitPipes /\ [][NextPipes]_vars

\* ------------------------------------------------------------------ properties

\* The bytes a completed execution wrote: stdout, stderr, the failure line.
Expected(k) == k.stdout \o k.stderr \o (IF k.cmdErr THEN <<ErrExecFailed>> ELSE <<>>)

\* The handler of k is between reading a cycle's marker and relaying its output.
InCycle(k) == k.pc \in {"CreateTemp", "ReadScript", "Start", "Wait", "Relay"}

\* The latest cycle of k has relayed its output.
Relayed(k) == k.cycles > 0 /\ k.nrelay = k.cycles

\* C1: in a cycle that reaches execution nothing is written to the client before
\* the relay, and the relay writes exactly the captured stdout bytes, then the
\* captured stderr bytes, then (only after a failing exit) the failure line.
C1_RelayOrder ==
    \A c \in Conns :
        LET k == conns[c]
        IN /\ InCycle(k) => Len(k.out) = k.mark
           /\ Relayed(k) => /\ k.relayEnd = k.mark + Len(Expected(k))
                            /\ SubSeq(k.out, k.mark + 1, k.relayEnd) = Expected(k)

C1_Witness ==
    \E c \in Conns :
        /\ Relayed(conns[c])
        /\ conns[c].stdout # <<>>
        /\ conns[c].stderr # <<>>
        /\ conns[c].cmdErr

C3_EnvExactlyExports ==
    \A c \in Conns : conns[c].nstart > 0 => conns[c].procEnv = expo

\* C4: a process is launched only after a newline-terminated line equal to the
\* cycle's marker was read; a read that ends in end-of-stream or a failure
\* (a final unterminated line equal to the marker included) ends the handler
\* and closes the connection, and the cycle it ends has launched nothing.
C4_LaunchOnlyAfterMarker ==
    \A c \in Conns :
        LET k == conns[c]
        IN /\ k.nstart <= k.closers
           /\ k.closers <= k.cycles
           /\ k.pc \in {"Start", "Wait"} =>
                 /\ k.lastErr = "nil"
                 /\ k.lastLine = Append(k.eofMarker, NL)
                 /\ k.closers = k.cycles
           /\ k.lastErr # "nil" =>
                 /\ k.pc = "Done"
                 /\ k.closed
                 /\ k.closers < k.cycles => k.nstart < k.cycles

C4_Witness ==
    \E c \in Conns :
        /\ conns[c].pc = "Done"
        /\ conns[c].lastErr = "eof"
        /\ conns[c].cycles = 1
        /\ conns[c].lastLine = conns[c].eofMarker
        /\ conns[c].nstart = 0

\* C5: in AwaitMarker an empty line is consumed with no spool file created, no
\* process launched and nothing written, the handler staying in AwaitMarker;
\* a non-empty line becomes the marker of the cycle then started.
C5_EmptyMarkerSkipped ==
    [][\A c \in Conns :
          (conns[c].pc = "ReadMarker" /\ HasNL(conns[c].in) /\ conns'[c] # conns[c]) =>
              LET line == SubSeq(conns[c].in, 1, FirstNL(conns[c].in))
              IN /\ conns'[c].in = SubSeq(conns[c].in, FirstNL(conns[c].in) + 1,
                                          Len(conns[c].in))
                 /\ conns'[c].out = conns[c].out
                 /\ conns'[c].nstart = conns[c].nstart
                 /\ fs' = fs
                 /\ IF line = <<NL>>
                    THEN /\ conns'[c].pc = "ReadMarker"
                         /\ conns'[c].cycles = conns[c].cycles
                    ELSE /\ conns'[c].pc = "CreateTemp"
                         /\ conns'[c].cycles = conns[c].cycles + 1
                         /\ Append(conns'[c].eofMarker, NL) = line]_vars

C5_Witness ==
    \E c \in Conns :
        /\ conns[c].skipped >= 2
        /\ conns[c].pc = "CreateTemp"
        /\ conns[c].cycles = 1
        /\ conns[c].eofMarker # <<>>

\* C10: a failed launch writes one error line, ends the handler and closes the
\* connection with the client's remaining bytes unread; nothing is read or
\* launched on that connection afterwards.
C10_LaunchFailureCloses ==
    [][\A c \in Conns :
          /\ (conns[c].pc = "Start" /\ conns'[c] # conns[c] /\ conns'[c].pc # "Wait") =>
                /\ conns'[c].pc = "Done"
                /\ conns'[c].closed
                /\ conns'[c].out = Append(conns[c].out, ErrStartShell)
                /\ conns'[c].in = conns[c].in
                /\ conns'[c].nstart = conns[c].nstart
                /\ conns'[c].cycles = conns[c].cycles
          /\ conns[c].pc = "Done" => conns'[c] = conns[c]]_vars

C10_Witness ==
    \E c \in Conns :
        /\ conns[c].pc = "Done"
        /\ conns[c].closed
        /\ conns[c].nstart < conns[c].closers
        /\ conns[c].in # <<>>
        /\ conns[c].out # <<>>
        /\ conns[c].out[Len(conns[c].out)] = ErrStartShell

\* ListenAndServe of s has bound its socket.
Bound(s) == svcs[s].watcher # "none"

\* C7: once the context is cancelled, every listener loop that is blocked in
\* accept gets its socket closed and returns nil, whatever the other loops do.
C7_CancelUnblocksAccept ==
    \A s \in Services :
        (ctxDone /\ svcs[s].pc = "Accept")
            ~> (svcs[s].pc = "Returned" /\ svcs[s].ret = "nil" /\ ~svcs[s].lnOpen)

C7_Witness ==
    \E s \in Services :
        /\ ctxDone
        /\ svcs[s].pc = "Select"
        /\ svcs[s].accErr
        /\ svcs[s].watcher = "done"
        /\ ~svcs[s].lnOpen

\* C8: ListenAndServe returns an error only from a failed bind; the loop goes
\* on after an accept error seen before cancellation and returns nil on any
\* accept result seen after it; a handler's return leaves the loop as it is.
C8_OnlyBindFails ==
    [][/\ \A s \in Services :
            /\ (svcs'[s].ret = "err" /\ svcs[s].ret # "err") =>
                  svcs[s].pc = "Listen" /\ ~Bound(s) /\ ~Bound(s)'
            /\ (svcs[s].pc = "Select" /\ svcs'[s].pc # "Select") =>
                  IF ctxDone
                  THEN svcs'[s].pc = "Returned" /\ svcs'[s].ret = "nil"
                  ELSE svcs'[s].pc = "Accept" /\ svcs'[s].ret = "none"
       /\ \A c \in Conns :
            conns'[c].hret # conns[c].hret => svcs' = svcs]_vars

C8_Witness ==
    \E s \in Services, c \in Conns :
        /\ conns[c].svc = s
        /\ conns[c].hret = "err"
        /\ svcs[s].pc = "Returned"
        /\ svcs[s].ret = "nil"

\* C9: a service whose bind failed has returned the error without ever
\* listening or accepting; the context is done only by the interrupt signal
\* or main's return, and until it is done every bound service stays in its
\* accept loop with its socket open and the process running.
C9_BindFailureIsLocal ==
    /\ \A s \in Services :
          /\ svcs[s].ret = "err" =>
                /\ svcs[s].pc = "Returned"
                /\ ~Bound(s)
                /\ ~svcs[s].lnOpen
                /\ \A c \in Conns : conns[c].svc # s
          /\ (Bound(s) /\ ~ctxDone) =>
                /\ svcs[s].pc \in {"Accept", "Select"}
                /\ svcs[s].lnOpen
    /\ ctxDone => (main.sig \/ main.pc = "exit")
    /\ ~ctxDone => Alive

C9_Witness ==
    \E s \in Services, t \in Services, c \in Conns :
        /\ svcs[s].ret = "err"
        /\ t # s
        /\ ~ctxDone
        /\ conns[c].svc = t
        /\ conns[c].pc = "Done"
        /\ svcs[t].pc = "Accept"

\* The handler of k holds a spool file it has created and not yet removed.
HoldsSpool(k) == k.pc \in {"ReadScript", "Start", "Wait", "Relay"}

\* C6: the spool files two handlers hold at the same time have different
\* names, and the file a connection's shell is started on is that connection's
\* own, holding exactly the lines received on it.
C6_SpoolFilesDisjoint ==
    \A c \in Conns :
        /\ \A d \in Conns \ {c} :
              (HoldsSpool(conns[c]) /\ HoldsSpool(conns[d])) => conns[c].tmp # conns[d].tmp
        /\ conns[c].pc \in {"Wait", "Relay"} =>
              /\ conns[c].ranOwner \in {c, NoFile}
              /\ conns[c].ranOwner = c => conns[c].ranScript = conns[c].recv

\* C11: a read in AwaitMarker or ReceivingScript that finds no whole line ends
\* the handler and closes the connection; after clean end-of-stream nothing is
\* written, after any other read failure exactly one error line is, and a
\* failed spool write likewise ends the handler with exactly one error line.
C11_ReadEndsHandler ==
    [][\A c \in Conns :
          (conns[c].pc \in {"ReadMarker", "ReadScript"} /\ conns'[c] # conns[c]) =>
              /\ ~HasNL(conns[c].in) => conns'[c].pc = "Done"
              /\ conns'[c].pc = "Done" =>
                    /\ conns'[c].closed
                    /\ conns'[c].hret = "nil"
                    /\ conns'[c].out =
                          IF conns'[c].lastErr = "eof" THEN conns[c].out
                          ELSE IF conns'[c].lastErr = "nil"
                          THEN Append(conns[c].out, ErrWriteScript)
                          ELSE IF conns[c].pc = "ReadMarker"
                          THEN Append(conns[c].out, ErrReadMarker)
                          ELSE Append(conns[c].out, ErrReadScript)
                    /\ conns'[c].lastErr = "nil" => conns[c].pc = "ReadScript"]_vars

C11_Witness ==
    \E c \in Conns :
        /\ conns[c].pc = "Done"
        /\ conns[c].closed
        /\ conns[c].lastErr = "err"
        /\ conns[c].nrelay = 1
        /\ conns[c].out # <<>>
        /\ conns[c].out[Len(conns[c].out)] = ErrReadScript

\* The spool files created by connection c that exist.
SpoolFilesOf(files, c) == {n \in Names : files[n] = c}

\* The handler of k is in no cycle: before a marker, or returned.
CycleEnded(k) == k.pc \in {"ReadMarker", "CreateTemp", "Done"}

\* C12: at most one spool file created by a connection exists at a time; none
\* exists once the cycle has ended, however it ended; and a handler's removal
\* of a name whose spool file it has already removed changes nothing.
C12_SpoolLifecycle ==
    [][\A c \in Conns :
          /\ Cardinality(SpoolFilesOf(fs', c)) <= 1
          /\ CycleEnded(conns'[c]) => SpoolFilesOf(fs', c) = {}
          /\ (conns[c].pc # "Done" /\ conns'[c].pc = "Done") =>
                \A n \in conns[c].deferred : fs[n] # c => fs'[n] = fs[n]]_vars

\* The handler of k is blocked in reader.ReadString: no whole line is
\* buffered and the client keeps the socket open without sending.
BlockedInRead(k) == k.pc \in {"ReadMarker", "ReadScript"} /\ ~CanRead(k.in, k.end)

\* C13: no step, cancellation and the return of ListenAndServe included,
\* closes or unblocks a connection whose handler is blocked in a socket read;
\* the loop returns without waiting for such handlers.
C13_CancelLeavesReaders ==
    [][\A c \in Conns :
          BlockedInRead(conns[c]) =>
              /\ conns'[c] = conns[c]
              /\ ~conns'[c].closed]_vars

C13_Witness ==
    \E c \in Conns :
        /\ BlockedInRead(conns[c])
        /\ ~conns[c].closed
        /\ ctxDone
        /\ svcs[conns[c].svc].pc = "Returned"
        /\ svcs[conns[c].svc].watcher = "done"
        /\ Alive

\* ListenAndServe of s has been started.
Started(s) == svcs[s].pc # "Unstarted"

\* The shell the s-th argument names.
ShellOf(s) == TrimSpace(Split(host.args[s])[1])

\* The s-th argument names a file found neither by itself, nor in the
\* working directory, nor on the search path.
Nowhere(s) ==
    LET shell == ShellOf(s)
    IN IF IsAbs(shell) THEN FileKind(host, shell) = "none"
       ELSE /\ FileKind(host, Join(host.cwd, shell)) = "none"
            /\ \A d \in 1..Len(host.searchPath) :
                  FileKind(host, Join(host.searchPath[d], shell)) = "none"

\* C14: a started service that was given an absolute path runs that path,
\* which is an executable; one given a relative name with no such path on disk
\* runs the first executable of that name on the search path; and a shell
\* found nowhere leaves its service unstarted and main short of its wait.
C14_ShellResolution ==
    \A s \in 1..Len(host.args) :
        LET shell == ShellOf(s)
        IN /\ (Started(s) /\ IsAbs(shell)) =>
                 /\ svcs[s].cmd = shell
                 /\ FileKind(host, shell) = "exec"
           /\ (Started(s) /\ ~IsAbs(shell) /\ FileKind(host, Join(host.cwd, shell)) = "none") =>
                 \E d \in 1..Len(host.searchPath) :
                    /\ svcs[s].cmd = Join(host.searchPath[d], shell)
                    /\ FileKind(host, svcs[s].cmd) = "exec"
                    /\ \A e \in 1..(d - 1) :
                          FileKind(host, Join(host.searchPath[e], shell)) # "exec"
           /\ Nowhere(s) =>
                 /\ ~Started(s)
                 /\ main.pc # "wait"
                 /\ main.next <= s
                 /\ (main.next = s /\ main.pc # "args") => ~Alive

C14_Witness ==
    /\ Len(host.args) = 2
    /\ svcs[1].pc = "Accept"
    /\ ShellOf(1) = Chars("s")
    /\ svcs[1].cmd = Chars("/u/s")
    /\ FileKind(host, Chars("/b/s")) = "file"
    /\ ShellOf(2) = Chars("/x/s")
    /\ main.pc = "exit"

\* The s-th argument leaves the port unspecified.
PortUnspecified(s) ==
    LET parts == Split(host.args[s])
    IN Len(parts) < 3 \/ parts[3] = <<>>

\* C15: a started service whose argument leaves the port unspecified listens
\* on DefaultPort + k - 1, k being its rank among the arguments that leave the
\* port unspecified; one whose argument gives a port listens on that port.
C15_PortAutoIncrement ==
    \A s \in 1..Len(host.args) :
        Started(s) =>
            IF PortUnspecified(s)
            THEN svcs[s].port =
                    DefaultPort + Cardinality({t \in 1..s : PortUnspecified(t)}) - 1
            ELSE svcs[s].port = Atoi(Split(host.args[s])[3]).val

\* The lines of a byte sequence, each with its terminator.
RECURSIVE LinesOf(_)
LinesOf(b) ==
    IF b = <<>> THEN <<>>
    ELSE IF HasNL(b)
    THEN <<SubSeq(b, 1, FirstNL(b))>> \o LinesOf(SubSeq(b, FirstNL(b) + 1, Len(b)))
    ELSE <<b>>

\* C16: the spool file starts empty; every line read in ReceivingScript that is
\* not exactly the marker plus newline is appended to it byte for byte, a
\* line that is ends the script and is not appended; so at execution the file
\* holds whole lines none of which is the marker line, and it is not written
\* while the cycle executes.
C16_SpoolVerbatim ==
    [][\A c \in Conns :
          LET k == conns[c]
          IN /\ (k.pc = "CreateTemp" /\ conns'[c].pc = "ReadScript") =>
                   conns'[c].spool = <<>>
             /\ (k.pc = "ReadScript" /\ HasNL(k.in) /\ conns'[c] # k) =>
                   LET line == SubSeq(k.in, 1, FirstNL(k.in))
                   IN IF line = Append(k.eofMarker, NL)
                      THEN conns'[c].pc = "Start" /\ conns'[c].spool = k.spool
                      ELSE /\ conns'[c].pc \in {"ReadScript", "Done"}
                           /\ conns'[c].pc = "ReadScript" =>
                                 conns'[c].spool = k.spool \o line
             /\ k.pc \in {"Start", "Wait"} =>
                   /\ \A i \in 1..Len(LinesOf(k.spool)) :
                         /\ LinesOf(k.spool)[i] # Append(k.eofMarker, NL)
                         /\ HasNL(LinesOf(k.spool)[i])
                   /\ conns'[c].spool = k.spool]_vars

C16_Witness ==
    \E c \in Conns :
        /\ conns[c].pc = "Start"
        /\ conns[c].eofMarker = <<"M">>
        /\ conns[c].spool = <<"M", "a", NL, NL>>

\* A handler task runs for the socket of k.
HandlerRuns(k) == k.pc \in {"ReadMarker", "CreateTemp", "ReadScript", "Start", "Wait", "Relay"}

\* C17: every accepted socket is closed, or owned by a running handler, or
\* held by its listener loop between Accept's return and the dispatch.
C17_AcceptedIsDispatched ==
    \A c \in Conns :
        conns[c].pc # "Idle" =>
            \/ conns[c].closed
            \/ HandlerRuns(conns[c])
            \/ /\ svcs[conns[c].svc].pc = "Select"
               /\ svcs[conns[c].svc].acc = c

\* C18: a connection has at most one launched process whose output is not yet
\* relayed, and has one exactly while its handler waits for the process or
\* relays; while the handler waits it neither reads from nor writes to the
\* socket; and when the marker of a new cycle is read every earlier cycle has
\* been relayed in full.
C18_CyclesSequential ==
    [][\A c \in Conns :
          LET k == conns[c]
          IN /\ k.nrelay <= k.nstart
             /\ k.nstart <= k.nrelay + 1
             /\ (k.nstart = k.nrelay + 1) <=> (k.pc \in {"Wait", "Relay"})
             /\ k.pc = "Wait" => (conns'[c].in = k.in /\ conns'[c].out = k.out)
             /\ conns'[c].cycles = k.cycles + 1 =>
                   /\ k.pc = "ReadMarker"
                   /\ k.nrelay = k.cycles
                   /\ k.nstart = k.cycles
                   /\ Len(k.out) = k.relayEnd]_vars

C18_Witness ==
    \E c \in Conns :
        /\ conns[c].cycles = 2
        /\ conns[c].nstart = 2
        /\ conns[c].nrelay = 1
        /\ conns[c].pc = "Wait"
        /\ conns[c].out # <<>>

\* C19: with the empty export mapping, whatever srv's handler does on a
\* client's bytes and the outcomes it meets, server's handler can do its next
\* step on the same bytes and outcomes and is then seen to have done the same:
\* the same bytes read and written, the same spool file created, written and
\* removed, the same launch with the same environment, the same return.
C19_ImplementationsEquivalent ==
    /\ [](~InSync => ENABLED ServerHandleConnection)
    /\ [][~InSync => InSync']_vars

C19_Witness ==
    /\ InSync
    /\ old.conn.pc = "Done"
    /\ old.conn.nstart = 2
    /\ old.conn.out # <<>>
    /\ old.conn.deferred # {}
    /\ old.conn.procEnv # {}

\* C20: the shell is never blocked writing to stderr while the handler is
\* blocked reading stdout.
C20_CaptureNeverDeadlocks ==
    ~ /\ ShellRuns
      /\ WriteBlocked
      /\ proc.todo[1] = "e"
      /\ proc.reader = "stdout"
      /\ proc.outPipe = <<>>
      /\ ~proc.exited

\* The step is a removal by the handler of c that unlinks the file under name
\* n: the explicit os.Remove of line 232 or a deferred one at handler return.
Unlinks(c, n) == conns'[c] # conns[c] /\ fs[n] # NoFile /\ fs'[n] = NoFile

\* C21: a handler's removals, the explicit one after the relay and the
\* deferred ones that run when it returns, unlink only spool files the handler
\* itself created; a file another connection has created in the meantime under
\* a name of an earlier cycle stays.
C21_RemovalsHitOwnFiles ==
    [][\A c \in Conns : \A n \in Names : Unlinks(c, n) => fs[n] = c]_vars

\* The shell of k's cycle has been started and cmd.Wait() has not returned.
Running(k) == k.pc = "Wait"

\* A running shell is sent the kill once the context is done (or ends before).
KillReaches(c) ==
    (ctxDone /\ Running(conns[c])) ~> (conns[c].killed \/ ~Running(conns[c]))

\* A step of c's handler at cmd.Start() with the context done: no shell is
\* started, the client gets the launch failure line and the connection is closed.
NoLaunchAfterCancel(c) ==
    (ctxDone /\ conns[c].pc = "Start" /\ conns'[c] # conns[c]) =>
        /\ conns'[c].nstart = conns[c].nstart
        /\ conns'[c].pc = "Done"
        /\ conns'[c].closed
        /\ conns'[c].out = Append(conns[c].out, ErrStartShell)

\* A step of c's handler relaying the cycle of a killed shell: the failure
\* line ends what it writes, the handler awaits the next marker, the
\* connection stays open.
KilledIsReported(c) ==
    (conns[c].pc = "Relay" /\ conns[c].killed /\ conns'[c] # conns[c]) =>
        /\ conns'[c].out # <<>>
        /\ conns'[c].out[Len(conns'[c].out)] = ErrExecFailed
        /\ conns'[c].pc = "ReadMarker"
        /\ ~conns'[c].closed

\* C22: once the context is cancelled, every running shell is sent the kill
\* and no handler starts another shell; a killed shell is reported to the
\* client as a script execution failure, its handler goes back to awaiting a
\* marker with the connection open, and a later cycle ends at a failed launch
\* with the connection closed.
C22_CancelTerminatesShells ==
    /\ \A c \in Conns : KillReaches(c)
    /\ [][\A c \in Conns : NoLaunchAfterCancel(c) /\ KilledIsReported(c)]_vars

\* What does hold of the kill: it reaches every running shell unless main has
\* returned from g.Wait() and the program has exited first.
KillReachesOrExited ==
    \A c \in Conns :
        (ctxDone /\ Running(conns[c])) ~> (conns[c].killed \/ ~Running(conns[c]) \/ ~Alive)

\* The program has exited with a shell of c still running and never killed.
Orphaned(c) == ~Alive /\ Running(conns[c]) /\ ~conns[c].killed

====
